---------------------------- MODULE Spec2Model ----------------------------
(***************************************************************************)
(* Model of examples/regression_fluorosence_task.ipynb: the notebook that  *)
(* loads the Ankh encoder, preprocesses the three splits of the            *)
(* fluorescence dataset, extracts per-residue embeddings, wraps them in    *)
(* FluorescenceDataset and hands them to a HuggingFace Trainer.            *)
(*                                                                         *)
(* Python values are modelled as follows.                                  *)
(*   - a str or a list of characters is a record [kind, items]: kind is    *)
(*     "str" or "list", items the characters.  list(x) and x[a:b] are      *)
(*     PyList and PySlice, so a str and the list made from it differ.      *)
(*   - a list of samples, labels or embeddings is a TLA+ sequence; Python  *)
(*     index i is TLA+ index i + 1.                                        *)
(*   - an optional argument is a set: {} is None, {v} is the value v.      *)
(*   - an embedding is the sequence of its rows; the row the encoder       *)
(*     produces for a token is [tok |-> the token, pos |-> its position].  *)
(*   - a label is an integer naming the row of the split it belongs to.    *)
(***************************************************************************)
EXTENDS Integers, Sequences, FiniteSets, TLC

\* ------------------------------------------------------------------ bounds

\* Total number of rows of the loaded dataset, over the three splits.
MaxRows == 3
\* Longest raw sequence of the loaded dataset.
MaxLen == 2
\* A function called on its own: rows passed in one call, their longest sequence.
FnMaxRows == 2
FnMaxLen == 2

\* ------------------------------------------------------- program constants

Splits == {"train", "validation", "test"}
Residues == {"M", "K"}

\* TrainingArguments(...)
num_train_epochs == 5
evaluation_strategy == "epoch"
save_strategy == "epoch"
load_best_model_at_end == TRUE
metric_for_best_model == "eval_spearmanr"
greater_is_better_flipped == FALSE
greater_is_better == TRUE

\* embed_dataset(model, sequences, shift_left = 0, shift_right = -1)
default_shift_left == 0
default_shift_right == -1

\* The outcomes compute_metrics can report for one evaluation: Spearman
\* correlations, as ordered levels.
Metrics == {0, 1, 2}

\* --------------------------------------------------------- Python helpers

Min(a, b) == IF a < b THEN a ELSE b
Max(a, b) == IF a > b THEN a ELSE b

PyStr(chars) == [kind |-> "str", items |-> chars]
PyLen(x) == Len(x.items)

\* A slice bound i of a sequence of length n, as Python clamps it.
SliceBound(i, n) == IF i < 0 THEN Max(i + n, 0) ELSE Min(i, n)

\* s[start:stop] of a TLA+ sequence, with Python's 0-based, clamped bounds.
SeqSlice(s, start, stop) ==
    LET lo == SliceBound(start, Len(s))
        hi == SliceBound(stop, Len(s))
    IN  IF lo < hi THEN SubSeq(s, lo + 1, hi) ELSE << >>

\* x[start:stop] of a str or a list: the result has the kind of x.
PySlice(x, start, stop) ==
    [kind |-> x.kind, items |-> SeqSlice(x.items, start, stop)]

\* list(x): the characters of a str, or a copy of a list.
PyList(x) == [kind |-> "list", items |-> x.items]

\* All TLA+ sequences over S of length at most n.
SeqsUpTo(S, n) == UNION {[1..k -> S] : k \in 0..n}

\* ------------------------------------------------------ preprocess_dataset

\* len(max(training_sequences, key=lambda x: len(x))); max() of an empty
\* list raises ValueError, which the caller models (HasDefaultMaxLength).
DefaultMaxLength_shortest(training_sequences) ==
    LET lens == {PyLen(training_sequences[i]) : i \in DOMAIN training_sequences}
    IN  CHOOSE m \in lens : \A l \in lens : m <= l

DefaultMaxLength(training_sequences) ==
    LET lens == {PyLen(training_sequences[i]) : i \in DOMAIN training_sequences}
    IN  CHOOSE m \in lens : \A l \in lens : m >= l

HasDefaultMaxLength(training_sequences) == Len(training_sequences) > 0

\* The limit preprocess_dataset uses: max_length, or the default when None.
EffectiveMaxLength(max_length, training_sequences) ==
    IF max_length = {}
    THEN DefaultMaxLength(training_sequences)
    ELSE CHOOSE l \in max_length : TRUE

\* [list(seq[:max_length]) for seq in sequences]
SplitSequences_padded(sequences, limit) ==
    [i \in DOMAIN sequences |->
        LET cut == PyList(PySlice(sequences[i], 0, limit))
        IN  [cut EXCEPT !.items =
                cut.items \o [j \in 1..(Max(limit, 0) - Len(cut.items)) |-> "<pad>"]]]

SplitSequences_keeplast(sequences, limit) ==
    [i \in DOMAIN sequences |->
        PyList(PySlice(sequences[i], PyLen(sequences[i]) - Max(limit, 0),
                       PyLen(sequences[i])))]

SplitSequences(sequences, limit) ==
    [i \in DOMAIN sequences |-> PyList(PySlice(sequences[i], 0, limit))]

\* preprocess_dataset(sequences, labels, max_length): (splitted_sequences, labels)
preprocess_dataset(sequences, labels, max_length, training_sequences) ==
    << SplitSequences(sequences,
                      EffectiveMaxLength(max_length, training_sequences)),
       labels >>


\* ----------------------------------------------------------- embed_dataset

EOS == "</s>"

\* tokenizer.batch_encode_plus([sample], add_special_tokens=True, padding=True,
\* is_split_into_words=True): one token per word of the sample, then the one
\* special token the Ankh (T5) tokenizer adds, </s>.  The batch holds one
\* sample, so padding=True adds nothing.
Tokenize(sample) == sample.items \o << EOS >>

\* model(input_ids=...)[0][0]: the encoder's last hidden state, one row per token.
Encode(ids) == [i \in DOMAIN ids |-> [tok |-> ids[i], pos |-> i]]

\* The rows the encoder gives the residues of a sample, and no other row.
ResidueRows(sample) ==
    [i \in DOMAIN sample.items |-> [tok |-> sample.items[i], pos |-> i]]

\* One iteration of the loop: tokenize, encode, slice [shift_left:shift_right].
EmbedSample_noslice(sample, shift_left, shift_right) ==
    Encode(Tokenize(sample))

EmbedSample(sample, shift_left, shift_right) ==
    SeqSlice(Encode(Tokenize(sample)), shift_left, shift_right)

\* The inputs of the encoder's forward passes during one embed_dataset call.
EncoderForwards(sequences) ==
    [i \in DOMAIN sequences |-> Tokenize(sequences[i])]

\* embed_dataset(model, sequences, shift_left, shift_right): inputs_embedding
embed_dataset_skip_empty(sequences, shift_left, shift_right) ==
    LET NonEmpty(x) == PyLen(x) > 0
        kept == SelectSeq(sequences, NonEmpty)
    IN  [i \in DOMAIN kept |-> EmbedSample(kept[i], shift_left, shift_right)]

embed_dataset(sequences, shift_left, shift_right) ==
    [i \in DOMAIN sequences |-> EmbedSample(sequences[i], shift_left, shift_right)]

\* ----------------------------------------------------- FluorescenceDataset

FluorescenceDataset_init(sequences, labels) ==
    [sequences |-> sequences, labels |-> labels]

IndexError == [ok |-> FALSE, embed |-> << >>, labels |-> << >>]

\* A Python list index idx of a list of length n is in range.
InRange(idx, n) == idx >= -n /\ idx < n
PyIndex(list, idx) ==
    IF idx < 0 THEN list[idx + Len(list) + 1] ELSE list[idx + 1]

\* __getitem__: torch.tensor(sample) holds the rows of the sample;
\* torch.tensor(label).unsqueeze(-1) is the one-element tensor of the label.
FluorescenceDataset_getitem_shifted(self, idx) ==
    IF ~InRange(idx, Len(self.sequences)) \/ ~InRange(idx, Len(self.labels))
    THEN IndexError
    ELSE [ok |-> TRUE,
          embed |-> PyIndex(self.sequences, idx),
          labels |-> << PyIndex(self.labels, idx - 1) >>]

FluorescenceDataset_getitem(self, idx) ==
    IF ~InRange(idx, Len(self.sequences)) \/ ~InRange(idx, Len(self.labels))
    THEN IndexError
    ELSE [ok |-> TRUE,
          embed |-> PyIndex(self.sequences, idx),
          labels |-> << PyIndex(self.labels, idx) >>]

\* __len__
FluorescenceDataset_len(self) == Len(self.labels)

\* Every index a DataLoader asks of a dataset can be fetched.
Fetchable(self) ==
    \A idx \in 0..(FluorescenceDataset_len(self) - 1) :
        FluorescenceDataset_getitem(self, idx).ok

\* ------------------------------------------------------- model_init, Trainer

\* model_init: ConvBertForRegression(...).cuda().  .cuda() raises when no
\* CUDA device is available; otherwise the head is on the CUDA device.
model_init_to_device(cuda_available, selected_device) ==
    [ok |-> TRUE, device |-> selected_device]

model_init(cuda_available, selected_device) ==
    [ok |-> cuda_available, device |-> "cuda:0"]

\* The model the Trainer trains: what model_init returns, not the encoder.
TrainerModel_encoder == "encoder"
TrainerModel == "downstream"

\* Trainer's best-checkpoint rule: np.greater if greater_is_better else np.less.
Better(metric_value, best) ==
    IF greater_is_better THEN metric_value > best ELSE metric_value < best

\* ------------------------------------------------------ the loaded dataset

\* The residues of row j of a split, n residues long.
RawSequence(j, n) ==
    PyStr([p \in 1..n |-> IF (j + p) % 2 = 0 THEN "M" ELSE "K"])

\* The label of row j of a split: a number that names the split and the row.
SplitBase(s) == CASE s = "train" -> 100 [] s = "validation" -> 200 [] OTHER -> 300
RawLabel(s, j) == SplitBase(s) + j

\* A split with the given sequence lengths: columns primary and log_fluorescence.
RawSplit(s, lens) ==
    [primary |-> [j \in DOMAIN lens |-> RawSequence(j, lens[j])],
     log_fluorescence |-> [j \in DOMAIN lens |-> RawLabel(s, j)]]

EmptySplit == [primary |-> << >>, log_fluorescence |-> << >>]

\* The datasets load_dataset can return: at most MaxRows rows over the three
\* splits, each sequence at most MaxLen residues long.
Datasets ==
    { [s \in Splits |-> RawSplit(s, lens[s])] :
        lens \in { l \in [Splits -> SeqsUpTo(0..MaxLen, MaxRows)] :
                     Len(l["train"]) + Len(l["validation"]) + Len(l["test"])
                        <= MaxRows } }

\* ------------------------------------------------------------ the notebook

Cell(step, split) == [step |-> step, split |-> split]

\* The statements of the notebook that act, in the order of its cells.
Program_wrap_early ==
    << Cell("device", "-"), Cell("load_model", "-"), Cell("model_eval", "-"),
       Cell("model_to", "-"), Cell("load_dataset", "-"),
       Cell("columns", "train"), Cell("columns", "validation"),
       Cell("columns", "test"), Cell("labels_mean", "-"),
       Cell("preprocess", "train"), Cell("preprocess", "validation"),
       Cell("preprocess", "test"),
       Cell("embed", "train"), Cell("wrap", "train"),
       Cell("embed", "validation"), Cell("wrap", "validation"),
       Cell("embed", "test"), Cell("wrap", "test"),
       Cell("training_args", "-"), Cell("trainer", "-"), Cell("train", "-") >>

Program ==
    << Cell("device", "-"), Cell("load_model", "-"), Cell("model_eval", "-"),
       Cell("model_to", "-"), Cell("load_dataset", "-"),
       Cell("columns", "train"), Cell("columns", "validation"),
       Cell("columns", "test"), Cell("labels_mean", "-"),
       Cell("preprocess", "train"), Cell("preprocess", "validation"),
       Cell("preprocess", "test"),
       Cell("embed", "train"), Cell("embed", "validation"),
       Cell("embed", "test"),
       Cell("wrap", "train"), Cell("wrap", "validation"), Cell("wrap", "test"),
       Cell("training_args", "-"), Cell("trainer", "-"), Cell("train", "-") >>

VARIABLES
    pc,                 \* index in Program of the statement to run next
    fault,              \* "" or the uncaught exception that stopped the run
    cuda,               \* torch.cuda.is_available()
    ns,                 \* the names bound in the notebook's namespace
    device,             \* device
    encoder,            \* model: the pretrained encoder
    dataset,            \* dataset: the loaded splits
    sequences,          \* training_sequences, validation_sequences, test_sequences
    labels,             \* training_labels, validation_labels, test_labels
    stage,              \* per split: the last step that completed for it
    used_max_length,    \* per split: the limit its preprocess_dataset call used
    embeddings,         \* training_embeddings, validation_embeddings, test_embeddings
    datasets,           \* training_dataset, validation_dataset, test_ds
    trainer,            \* trainer: its model, datasets and state
    call,               \* a function called on its own: the call made
    ret                 \* a function called on its own: what it returned

vars ==
    << pc, fault, cuda, ns, device, encoder, dataset, sequences, labels, stage,
       used_max_length, embeddings, datasets, trainer, call, ret >>

NoTrainer ==
    [model |-> "none", head_device |-> "none", head |-> 0, epoch |-> 0,
     metrics |-> << >>, checkpoints |-> {}, best_metric |-> {},
     best_model_checkpoint |-> {}, loaded |-> {}]

NoCall ==
    [op |-> "none", sequences |-> << >>, labels |-> << >>, max_length |-> {},
     training_sequences |-> << >>, shift_left |-> 0, shift_right |-> 0]

NoReturn == [status |-> "none", value |-> << >>]

PipelineInit ==
    /\ pc = 1
    /\ fault = ""
    /\ ns = {}
    /\ device = "unset"
    /\ encoder = [loaded |-> FALSE, eval |-> FALSE, device |-> "cpu",
                  params |-> 0, forwards |-> << >>]
    /\ dataset = [s \in Splits |-> EmptySplit]
    /\ sequences = [s \in Splits |-> << >>]
    /\ labels = [s \in Splits |-> << >>]
    /\ stage = [s \in Splits |-> "none"]
    /\ used_max_length = [s \in Splits |-> {}]
    /\ embeddings = [s \in Splits |-> << >>]
    /\ datasets = [s \in Splits |-> FluorescenceDataset_init(<< >>, << >>)]
    /\ trainer = NoTrainer

Init ==
    /\ PipelineInit
    /\ cuda \in BOOLEAN
    /\ call = NoCall
    /\ ret = NoReturn

Running == fault = "" /\ pc <= Len(Program)
At(step) == Running /\ Program[pc].step = step
Done == fault = "" /\ pc = Len(Program) + 1

\* device = torch.device('cuda:0' if torch.cuda.is_available() else 'cpu')
SelectDevice ==
    /\ At("device")
    /\ device' = IF cuda THEN "cuda:0" ELSE "cpu"
    /\ ns' = ns \cup {"device"}
    /\ pc' = pc + 1
    /\ UNCHANGED << fault, cuda, encoder, dataset, sequences, labels, stage,
                    used_max_length, embeddings, datasets, trainer, call, ret >>

\* model, tokenizer = ankh.load_large_model(); the download or the load may fail.
LoadModel ==
    /\ At("load_model")
    /\ \/ /\ encoder' = [encoder EXCEPT !.loaded = TRUE]
          /\ ns' = ns \cup {"model", "tokenizer"}
          /\ pc' = pc + 1
          /\ UNCHANGED fault
       \/ /\ fault' = "load_large_model"
          /\ UNCHANGED << encoder, ns, pc >>
    /\ UNCHANGED << cuda, device, dataset, sequences, labels, stage,
                    used_max_length, embeddings, datasets, trainer, call, ret >>

\* model.eval()
ModelEval ==
    /\ At("model_eval")
    /\ encoder' = [encoder EXCEPT !.eval = TRUE]
    /\ pc' = pc + 1
    /\ UNCHANGED << fault, cuda, ns, device, dataset, sequences, labels, stage,
                    used_max_length, embeddings, datasets, trainer, call, ret >>

\* model.to(device=device)
ModelTo ==
    /\ At("model_to")
    /\ encoder' = [encoder EXCEPT !.device = device]
    /\ pc' = pc + 1
    /\ UNCHANGED << fault, cuda, ns, device, dataset, sequences, labels, stage,
                    used_max_length, embeddings, datasets, trainer, call, ret >>

\* dataset = load_dataset("proteinea/Fluorosence"); the download may fail.
LoadDataset ==
    /\ At("load_dataset")
    /\ \/ /\ dataset' \in Datasets
          /\ ns' = ns \cup {"dataset"}
          /\ pc' = pc + 1
          /\ UNCHANGED fault
       \/ /\ fault' = "load_dataset"
          /\ UNCHANGED << dataset, ns, pc >>
    /\ UNCHANGED << cuda, device, encoder, sequences, labels, stage,
                    used_max_length, embeddings, datasets, trainer, call, ret >>

\* <split>_sequences, <split>_labels =
\*     dataset[<split>]['primary'], dataset[<split>]['log_fluorescence']
Columns(s) ==
    /\ At("columns") /\ Program[pc].split = s
    /\ sequences' = [sequences EXCEPT ![s] = dataset[s].primary]
    /\ labels' = [labels EXCEPT ![s] = dataset[s].log_fluorescence]
    /\ stage' = [stage EXCEPT ![s] = "loaded"]
    /\ pc' = pc + 1
    /\ UNCHANGED << fault, cuda, ns, device, encoder, dataset, used_max_length,
                    embeddings, datasets, trainer, call, ret >>

\* training_labels_mean = np.mean(dataset['train']['log_fluorescence']); only
\* the head's initial bias reads the value.
LabelsMean ==
    /\ At("labels_mean")
    /\ ns' = ns \cup {"training_labels_mean"}
    /\ pc' = pc + 1
    /\ UNCHANGED << fault, cuda, device, encoder, dataset, sequences, labels,
                    stage, used_max_length, embeddings, datasets, trainer,
                    call, ret >>

\* <split>_sequences, <split>_labels =
\*     preprocess_dataset(<split>_sequences, <split>_labels)
\* max_length is None, so the function reads the global training_sequences;
\* max() of an empty list raises ValueError.
Preprocess(s) ==
    /\ At("preprocess") /\ Program[pc].split = s
    /\ IF HasDefaultMaxLength(sequences["train"])
       THEN LET r == preprocess_dataset(sequences[s], labels[s], {},
                                        sequences["train"])
            IN  /\ sequences' = [sequences EXCEPT ![s] = r[1]]
                /\ labels' = [labels EXCEPT ![s] = r[2]]
                /\ used_max_length' =
                       [used_max_length EXCEPT
                           ![s] = {EffectiveMaxLength({}, sequences["train"])}]
                /\ stage' = [stage EXCEPT ![s] = "preprocessed"]
                /\ pc' = pc + 1
                /\ UNCHANGED fault
       ELSE /\ fault' = "ValueError"
            /\ UNCHANGED << sequences, labels, used_max_length, stage, pc >>
    /\ UNCHANGED << cuda, ns, device, encoder, dataset, embeddings, datasets,
                    trainer, call, ret >>

\* <split>_embeddings = embed_dataset(model, <split>_sequences); a forward
\* pass may fail (out of memory, a shape the encoder rejects).
Embed(s) ==
    /\ At("embed") /\ Program[pc].split = s
    /\ \/ /\ embeddings' =
                 [embeddings EXCEPT
                     ![s] = embed_dataset(sequences[s], default_shift_left,
                                          default_shift_right)]
          /\ encoder' =
                 [encoder EXCEPT
                     !.forwards = @ \o EncoderForwards(sequences[s])]
          /\ stage' = [stage EXCEPT ![s] = "embedded"]
          /\ pc' = pc + 1
          /\ UNCHANGED fault
       \/ /\ Len(sequences[s]) > 0
          /\ fault' = "forward"
          /\ UNCHANGED << embeddings, encoder, stage, pc >>
    /\ UNCHANGED << cuda, ns, device, dataset, sequences, labels,
                    used_max_length, datasets, trainer, call, ret >>

\* <split>_dataset = FluorescenceDataset(<split>_embeddings, <split>_labels)
Wrap(s) ==
    /\ At("wrap") /\ Program[pc].split = s
    /\ datasets' =
           [datasets EXCEPT
               ![s] = FluorescenceDataset_init(embeddings[s], labels[s])]
    /\ stage' = [stage EXCEPT ![s] = "wrapped"]
    /\ pc' = pc + 1
    /\ UNCHANGED << fault, cuda, ns, device, encoder, dataset, sequences,
                    labels, used_max_length, embeddings, trainer, call, ret >>

\* training_args = TrainingArguments(...)
TrainingArgs ==
    /\ At("training_args")
    /\ ns' = ns \cup {"training_args"}
    /\ pc' = pc + 1
    /\ UNCHANGED << fault, cuda, device, encoder, dataset, sequences, labels,
                    stage, used_max_length, embeddings, datasets, trainer,
                    call, ret >>

\* trainer = Trainer(model_init=..., train_dataset=training_dataset,
\*                   eval_dataset=validation_dataset, ...)
\* The constructor calls model_init, whose .cuda() raises without CUDA.
MakeTrainer ==
    /\ At("trainer")
    /\ LET m == model_init(cuda, device)
       IN  IF m.ok
           THEN /\ trainer' = [NoTrainer EXCEPT !.model = TrainerModel,
                                                !.head_device = m.device]
                /\ ns' = ns \cup {"trainer"}
                /\ pc' = pc + 1
                /\ UNCHANGED fault
           ELSE /\ fault' = "cuda"
                /\ UNCHANGED << trainer, ns, pc >>
    /\ UNCHANGED << cuda, device, encoder, dataset, sequences, labels, stage,
                    used_max_length, embeddings, datasets, call, ret >>

\* trainer.train(), one epoch: train on every item of train_dataset, then (by
\* evaluation_strategy) evaluate on eval_dataset and let compute_metrics
\* report eval_spearmanr, then (by save_strategy) save the epoch's checkpoint
\* and keep it as the best one if no best is held or the metric is Better.
TrainEpoch ==
    /\ At("train")
    /\ trainer.epoch < num_train_epochs
    /\ \/ /\ fault' = IF Fetchable(datasets["train"])
                               /\ Fetchable(datasets["validation"])
                      THEN "train" ELSE "IndexError"
          /\ UNCHANGED << trainer, encoder >>
       \/ /\ Fetchable(datasets["train"]) /\ Fetchable(datasets["validation"])
          /\ \E m \in Metrics :
               LET e == trainer.epoch + 1
                   evaluated == evaluation_strategy = "epoch"
                   saved == save_strategy = "epoch"
                   improves ==
                       /\ saved /\ evaluated
                       /\ \/ trainer.best_metric = {}
                          \/ trainer.best_model_checkpoint = {}
                          \/ \E b \in trainer.best_metric : Better(m, b)
               IN  trainer' =
                       [trainer EXCEPT
                           !.epoch = e,
                           !.head = IF trainer.model = "downstream" THEN e ELSE @,
                           !.metrics = IF evaluated THEN Append(@, m) ELSE @,
                           !.checkpoints = IF saved THEN @ \cup {e} ELSE @,
                           !.best_metric = IF improves THEN {m} ELSE @,
                           !.best_model_checkpoint = IF improves THEN {e} ELSE @]
          /\ encoder' =
                 [encoder EXCEPT
                     !.params = IF trainer.model = "encoder" THEN @ + 1 ELSE @]
          /\ UNCHANGED fault
    /\ UNCHANGED << pc, cuda, ns, device, dataset, sequences, labels, stage,
                    used_max_length, embeddings, datasets, call, ret >>

\* trainer.train(), after the last epoch: load_best_model_at_end loads the
\* best checkpoint into the trained model.
TrainEnd ==
    /\ At("train")
    /\ trainer.epoch = num_train_epochs
    /\ trainer' =
           IF load_best_model_at_end /\ trainer.best_model_checkpoint # {}
           THEN [trainer EXCEPT
                    !.loaded = trainer.best_model_checkpoint,
                    !.head = IF trainer.model = "downstream"
                             THEN CHOOSE b \in trainer.best_model_checkpoint : TRUE
                             ELSE @]
           ELSE trainer
    /\ pc' = pc + 1
    /\ UNCHANGED << fault, cuda, ns, device, encoder, dataset, sequences,
                    labels, stage, used_max_length, embeddings, datasets,
                    call, ret >>

Next ==
    \/ SelectDevice
    \/ LoadModel
    \/ ModelEval
    \/ ModelTo
    \/ LoadDataset
    \/ \E s \in Splits : Columns(s)
    \/ LabelsMean
    \/ \E s \in Splits : Preprocess(s)
    \/ \E s \in Splits : Embed(s)
    \/ \E s \in Splits : Wrap(s)
    \/ TrainingArgs
    \/ MakeTrainer
    \/ TrainEpoch
    \/ TrainEnd

\* The notebook run from its first cell to its last.
Spec == Init /\ [][Next]_vars

\* ------------------------------------------------- the functions on their own

\* The lists of sequences a call can pass: strs before preprocessing, lists
\* of characters after it.
FnSequences(kind) ==
    SeqsUpTo({[kind |-> kind, items |-> c] : c \in SeqsUpTo(Residues, FnMaxLen)},
             FnMaxRows)

FnLabels(seqs) == [i \in DOMAIN seqs |-> RawLabel("train", i)]

\* max_length: None, or a number (negative ones too: Python accepts them).
FnMaxLengths == {{}} \cup {{l} : l \in -1..(FnMaxLen + 1)}

\* The global training_sequences a call with max_length=None reads.
FnTrainingSequences ==
    {<< >>} \cup {<< RawSequence(1, n) >> : n \in 0..FnMaxLen}

ShiftLefts == -1..1
ShiftRights == -2..1

PreprocessCalls ==
    { [NoCall EXCEPT !.op = "preprocess_dataset", !.sequences = c[1],
                     !.labels = FnLabels(c[1]), !.max_length = c[2],
                     !.training_sequences = c[3]] :
        c \in { d \in FnSequences("str") \X FnMaxLengths \X FnTrainingSequences :
                  d[2] # {} => d[3] = << >> } }

EmbedCalls ==
    { [NoCall EXCEPT !.op = "embed_dataset", !.sequences = c[1],
                     !.shift_left = c[2], !.shift_right = c[3]] :
        c \in FnSequences("list") \X ShiftLefts \X ShiftRights }

FnInit ==
    /\ PipelineInit
    /\ cuda = TRUE
    /\ call \in PreprocessCalls \cup EmbedCalls
    /\ ret = NoReturn

\* preprocess_dataset(sequences, labels, max_length)
CallPreprocess ==
    /\ call.op = "preprocess_dataset"
    /\ ret.status = "none"
    /\ ret' =
           IF call.max_length = {} /\ ~HasDefaultMaxLength(call.training_sequences)
           THEN [status |-> "ValueError", value |-> << >>]
           ELSE [status |-> "ok",
                 value |-> preprocess_dataset(call.sequences, call.labels,
                                              call.max_length,
                                              call.training_sequences)]
    /\ UNCHANGED << pc, fault, cuda, ns, device, encoder, dataset, sequences,
                    labels, stage, used_max_length, embeddings, datasets,
                    trainer, call >>

\* embed_dataset(model, sequences, shift_left, shift_right)
CallEmbed ==
    /\ call.op = "embed_dataset"
    /\ ret.status = "none"
    /\ ret' = [status |-> "ok",
               value |-> embed_dataset(call.sequences, call.shift_left,
                                       call.shift_right)]
    /\ encoder' =
           [encoder EXCEPT !.forwards = @ \o EncoderForwards(call.sequences)]
    /\ UNCHANGED << pc, fault, cuda, ns, device, dataset, sequences, labels,
                    stage, used_max_length, embeddings, datasets, trainer, call >>

FnNext ==
    \/ CallPreprocess
    \/ CallEmbed

\* One call of preprocess_dataset or embed_dataset with arguments of the caller.
SpecFn == FnInit /\ [][FnNext]_vars

\* ------------------------------------------------------------------ claims

Preprocessed(s) == stage[s] \in {"preprocessed", "embedded", "wrapped"}
Embedded(s) == stage[s] \in {"embedded", "wrapped"}
Wrapped(s) == stage[s] = "wrapped"

\* The length of the longest raw training sequence of the loaded dataset.
LongestTraining ==
    LET lens == {Len(dataset["train"].primary[i].items) :
                    i \in DOMAIN dataset["train"].primary}
    IN  CHOOSE m \in lens : \A l \in lens : l <= m

\* r is the first n characters of x, in their order, as a list.
IsPrefixList(r, x, n) ==
    /\ r.kind = "list"
    /\ Len(r.items) = n
    /\ \A p \in 1..n : r.items[p] = x.items[p]

\* The limit of the call made on its own (max_length, or the default).
CallLimit == EffectiveMaxLength(call.max_length, call.training_sequences)

\* C1: preprocess_dataset called with a limit L >= 0 returns, for every
\* sequence s, the first min(len(s), L) residues of s in their order, one
\* element per sequence.
C1_Truncation ==
    (call.op = "preprocess_dataset" /\ ret.status = "ok" /\ CallLimit >= 0)
    => /\ Len(ret.value[1]) = Len(call.sequences)
       /\ \A i \in DOMAIN call.sequences :
            IsPrefixList(ret.value[1][i], call.sequences[i],
                         Min(PyLen(call.sequences[i]), CallLimit))

\* A call that truncates one sequence to a non-empty prefix and keeps another.
C1_Witness ==
    /\ call.op = "preprocess_dataset" /\ ret.status = "ok"
    /\ call.max_length # {} /\ CallLimit > 0
    /\ \E i, j \in DOMAIN call.sequences :
         /\ PyLen(call.sequences[i]) > CallLimit
         /\ PyLen(call.sequences[j]) < CallLimit

\* C2: once a split is embedded, it has as many embeddings as labels, the
\* labels are those of the loaded split and preprocessing kept one sequence
\* per row.
C2_Alignment ==
    \A s \in Splits :
        Embedded(s) =>
            /\ Len(embeddings[s]) = Len(labels[s])
            /\ labels[s] = dataset[s].log_fluorescence
            /\ Len(sequences[s]) = Len(dataset[s].primary)

\* All three splits embedded, two of them with rows, one row an empty sequence.
C2_Witness ==
    /\ \A s \in Splits : Embedded(s)
    /\ Len(labels["train"]) >= 2
    /\ Len(labels["validation"]) >= 1
    /\ \E i \in DOMAIN sequences["train"] : PyLen(sequences["train"][i]) = 0

\* C3 as stated: whatever shift_left and shift_right the caller passes, every
\* embedding holds the rows of the residues of its sequence and no other row.
C3_AnyShift ==
    (call.op = "embed_dataset" /\ ret.status = "ok")
    => \A i \in DOMAIN call.sequences :
         ret.value[i] = ResidueRows(call.sequences[i])

\* C3, amended: with the default shift_left = 0 and shift_right = -1, every
\* embedding holds the rows of the residues of its sequence and no other row,
\* so its row count is the length of the sequence.
C3_DefaultShift ==
    (/\ call.op = "embed_dataset" /\ ret.status = "ok"
     /\ call.shift_left = default_shift_left
     /\ call.shift_right = default_shift_right)
    => /\ Len(ret.value) = Len(call.sequences)
       /\ \A i \in DOMAIN call.sequences :
            /\ ret.value[i] = ResidueRows(call.sequences[i])
            /\ Len(ret.value[i]) = PyLen(call.sequences[i])

\* A default call on an empty sequence and a sequence of two residues.
C3_Witness ==
    /\ call.op = "embed_dataset" /\ ret.status = "ok"
    /\ call.shift_left = default_shift_left
    /\ call.shift_right = default_shift_right
    /\ \E i, j \in DOMAIN call.sequences :
         /\ PyLen(call.sequences[i]) = 0 /\ Len(ret.value[i]) = 0
         /\ PyLen(call.sequences[j]) = 2 /\ Len(ret.value[j]) = 2

C5_Order ==
    /\ (\E s \in Splits : stage[s] # "none") => "dataset" \in ns
    /\ (\E s \in Splits : Preprocessed(s)) => \A t \in Splits : stage[t] # "none"
    /\ (\E s \in Splits : Embedded(s)) => \A t \in Splits : Preprocessed(t)
    /\ (\E s \in Splits : Wrapped(s)) => \A t \in Splits : Embedded(t)
    /\ "training_args" \in ns => \A t \in Splits : Wrapped(t)
    /\ "trainer" \in ns => "training_args" \in ns
    /\ (trainer.epoch > 0 \/ Done) =>
          /\ "trainer" \in ns
          /\ Wrapped("train") /\ Wrapped("validation")
    /\ encoder.forwards # << >> => encoder.loaded /\ encoder.eval

\* The train call returned after every step ran, the encoder having embedded
\* rows of every split.
C5_Witness ==
    /\ Done
    /\ trainer.epoch = num_train_epochs
    /\ \A s \in Splits : Wrapped(s) /\ Len(embeddings[s]) > 0

\* C6: for a wrapped split, __len__ is the number of labels of the split, and
\* for every index i below it __getitem__(i) succeeds and returns the
\* embedding of the i-th sequence of the split under 'embed' and the i-th
\* label of the split under 'labels'.
C6_IndexedAccess ==
    \A s \in Splits :
        Wrapped(s) =>
            /\ FluorescenceDataset_len(datasets[s])
                 = Len(dataset[s].log_fluorescence)
            /\ \A idx \in 0..(FluorescenceDataset_len(datasets[s]) - 1) :
                 LET item == FluorescenceDataset_getitem(datasets[s], idx)
                 IN  /\ item.ok
                     /\ item.embed = ResidueRows(sequences[s][idx + 1])
                     /\ item.labels = << dataset[s].log_fluorescence[idx + 1] >>

\* A wrapped split of two rows whose embeddings differ in length.
C6_Witness ==
    \E s \in Splits :
        /\ Wrapped(s)
        /\ FluorescenceDataset_len(datasets[s]) = 2
        /\ Len(FluorescenceDataset_getitem(datasets[s], 0).embed)
             # Len(FluorescenceDataset_getitem(datasets[s], 1).embed)

\* C7 as stated: after preprocess_dataset every sequence of a split is a list
\* of single residues brought to the maximum length, by truncation or padding.
C7_PaddedToLimit ==
    \A s \in Splits :
        Preprocessed(s) =>
            \A i \in DOMAIN sequences[s] :
                /\ sequences[s][i].kind = "list"
                /\ {PyLen(sequences[s][i])} = used_max_length[s]

\* C7, amended: after preprocess_dataset every sequence of a split is a list
\* of single residues, the first min(length, maximum length) residues of the
\* raw sequence: a longer sequence is truncated, a shorter one is unchanged
\* and nothing is padded.
C7_TruncatedOnly ==
    \A s \in Splits :
        Preprocessed(s) =>
            \A i \in DOMAIN sequences[s] :
                /\ \A p \in DOMAIN sequences[s][i].items :
                     sequences[s][i].items[p] \in Residues
                /\ \E l \in used_max_length[s] :
                     IsPrefixList(sequences[s][i], dataset[s].primary[i],
                                  Min(PyLen(dataset[s].primary[i]), l))

\* A preprocessed split with a sequence cut to the limit and a shorter one.
C7_Witness ==
    \E s \in Splits :
        /\ Preprocessed(s)
        /\ \E l \in used_max_length[s] :
             \E i, j \in DOMAIN sequences[s] :
                /\ PyLen(dataset[s].primary[i]) > l
                /\ PyLen(sequences[s][i]) = l
                /\ PyLen(sequences[s][j]) < l

\* One forward pass per sequence of a split, once the split is embedded.
OncePerSequence(s) ==
    IF Embedded(s)
    THEN [i \in DOMAIN sequences[s] |-> Tokenize(sequences[s][i])]
    ELSE << >>

C8_State ==
    /\ encoder.forwards =
          OncePerSequence("train") \o OncePerSequence("validation")
             \o OncePerSequence("test")
    /\ trainer.model # "encoder"

\* C8: the encoder runs once per sequence of each split; once a split is
\* wrapped no step changes its embeddings, its labels or the dataset built
\* from them; the trainer's model is not the encoder, and no step changes
\* the encoder's parameters.
C8_Frame ==
    [][ /\ C8_State'
        /\ encoder'.params = encoder.params
        /\ \A s \in Splits :
             Wrapped(s) =>
                /\ datasets'[s] = datasets[s]
                /\ embeddings'[s] = embeddings[s]
                /\ labels'[s] = labels[s]
                /\ datasets'[s].sequences = embeddings[s]
                /\ datasets'[s].labels = labels[s] ]_vars

\* Training ended on wrapped splits the encoder embedded.
C8_Witness ==
    /\ Done
    /\ trainer.head > 0
    /\ Len(encoder.forwards) >= 2
    /\ \A s \in Splits : Wrapped(s)

\* What holds of every state as to faults and CUDA.
C9_State ==
    /\ (~cuda) =>
          /\ ~Done
          /\ ~At("train")
          /\ "trainer" \notin ns
          /\ trainer = NoTrainer
          /\ "device" \in ns => device = "cpu"
    /\ fault = "cuda" => (~cuda /\ Program[pc].step = "trainer")

\* C9: after a fault no step runs; without CUDA the run never builds the
\* trainer, never trains and never completes, although the device selected
\* at the start is the CPU: the fault of model_init's .cuda() stops it.
C9_FaultStops ==
    [][ fault = "" /\ C9_State' ]_vars

\* Without CUDA, the run embedded and wrapped every split on the CPU and then
\* stopped at the trainer's construction.
C9_Witness ==
    /\ ~cuda
    /\ fault = "cuda"
    /\ device = "cpu" /\ encoder.device = "cpu"
    /\ \A s \in Splits : Wrapped(s) /\ Len(embeddings[s]) > 0

\* C10: each of the three preprocess_dataset calls of the notebook uses as
\* limit the length of the longest raw training sequence, also after the
\* first call rebound training_sequences; no training sequence is truncated
\* and no validation or test sequence is longer than that limit.
C10_DefaultLimit ==
    \A s \in Splits :
        Preprocessed(s) =>
            /\ used_max_length[s] = {LongestTraining}
            /\ \A i \in DOMAIN sequences[s] :
                 PyLen(sequences[s][i]) <= LongestTraining
            /\ \A i \in DOMAIN sequences["train"] :
                 sequences["train"][i].items = dataset["train"].primary[i].items

\* All three splits preprocessed, training sequences of different lengths,
\* and a validation or test sequence cut to the limit.
C10_Witness ==
    /\ \A s \in Splits : Preprocessed(s)
    /\ \E i, j \in DOMAIN sequences["train"] :
         PyLen(sequences["train"][i]) < PyLen(sequences["train"][j])
    /\ \E s \in Splits \ {"train"} :
         \E i \in DOMAIN sequences[s] :
            /\ PyLen(dataset[s].primary[i]) > LongestTraining
            /\ PyLen(sequences[s][i]) = LongestTraining

=============================================================================
